---- MODULE Spec2Model ----
(***************************************************************************)
(* The request router of missionMeteora/apiserv (package router): the      *)
(* pattern compiler splitPathToParts, the per-method route table filled by *)
(* Router.AddRoute, and the matcher Router.match / Router.Match.           *)
(*                                                                         *)
(* Go strings are modelled as sequences of one-character strings, so that  *)
(* slicing, indexing and scanning are computed as the code computes them.  *)
(* Indices named i, idx, last are Go's 0-based indices; Slice(s, a, b) is  *)
(* Go's s[a:b].                                                            *)
(***************************************************************************)
EXTENDS Integers, Sequences, FiniteSets

VARIABLES
    methods,    \* Router.methods: per HTTP method, a routeMap (or a nil map)
    maxParams,  \* Router.maxParams
    opts,       \* Router.opts (the options the claims read)
    routes,     \* history: the registrations that succeeded, in order
    last,       \* the last call made on the router and what it returned
    heap,       \* the paramsWrappers allocated so far: number -> [p, cap]
    pool,       \* Router.pp: the paramsWrappers put back and not taken since
    reqs,       \* the requests ServeHTTP is serving: slot -> where it is
    chain,      \* groupHandlerChain.Serve of one request: where it is
    sse         \* the sse.Router of one stream id, its multiStreams and its clients

\* what Router.ServeHTTP and the handler chain work on
serveVars == <<heap, pool, reqs>>

vars == <<methods, maxParams, opts, routes, last, heap, pool, reqs, chain, sse>>

----------------------------------------------------------------------------
(* Bounds of the model *)

\* at most this many nodes are registered over all methods
MaxRoutes == 2

\* longest pattern, in characters, of the compiler-only specification
MaxPatLen == 5

\* at most this many nodes are registered on the router that ServeHTTP serves
MaxServeRoutes == 3

\* at most this many paramsWrappers are allocated
MaxBufs == 2

----------------------------------------------------------------------------
(* Strings *)

Slice(s, a, b) == SubSeq(s, a + 1, b)

\* strings.Count(s, c) for a one-character c
RECURSIVE Count(_, _)
Count(s, c) ==
    IF s = <<>> THEN 0
    ELSE (IF Head(s) = c THEN 1 ELSE 0) + Count(Tail(s), c)

\* the HTTP methods Router.getMap has a table for
StdMethods == {"GET", "HEAD", "POST", "PUT", "PATCH", "DELETE", "CONNECT", "OPTIONS", "TRACE"}

\* the nil Handler
NilHandler == 0

ErrNil == "nil"
ErrTooManyStars == "too many stars"
ErrStarNotLast == "star param must be the last part of the path"
NoPanic == "none"
PanicNilMap == "assignment to entry in nil map"
PanicIndex == "index out of range"

----------------------------------------------------------------------------
(* utils: nodePart, the regular expression, splitPathFn, revSplitPathFn *)

\* nodePart.Type: the first byte of the part
Type(np) == np[1]

\* nodePart.Name: the part without its first byte
Name(np) == Tail(np)

\* end (exclusive, 0-based) of the longest run of [^:*] characters starting at j
RECURSIVE RunEnd(_, _)
RunEnd(p, j) ==
    IF j >= Len(p) \/ p[j + 1] \in {":", "*"} THEN j
    ELSE RunEnd(p, j + 1)

\* re.FindAllString(p, -1) for re = ([:*/]?[^:*]+), scanning from offset k:
\* leftmost match, the optional first character taken when the rest can match
RECURSIVE FindAllFrom(_, _)
FindAllFrom(p, k) ==
    IF k >= Len(p) THEN <<>>
    ELSE LET c == p[k + 1]
             e1 == RunEnd(p, k + 1)
             e0 == RunEnd(p, k)
         IN  IF c \in {":", "*", "/"} /\ e1 > k + 1
                 THEN <<Slice(p, k, e1)>> \o FindAllFrom(p, e1)
             ELSE IF e0 > k
                 THEN <<Slice(p, k, e0)>> \o FindAllFrom(p, e0)
             ELSE FindAllFrom(p, k + 1)

FindAllString(p) == FindAllFrom(p, 0)

\* The calls fn(p, pidx, idx) that splitPathFn makes, in order, as long as fn
\* returns false: the loop of splitPathFn from index i with counters pi, last.
RECURSIVE splitPathLoop(_, _, _, _, _)
splitPathLoop(s, sep, i, pi, last_) ==
    IF i >= Len(s) THEN <<>>
    ELSE IF s[i + 1] # sep /\ i < Len(s) - 1
        THEN splitPathLoop(s, sep, i + 1, pi, last_)
    ELSE LET e == IF s[i + 1] # sep THEN Len(s) ELSE i
             ss == Slice(s, last_, e)
         IN  IF ss # <<>>
                 THEN <<[p |-> ss, pidx |-> pi, idx |-> e]>>
                          \o splitPathLoop(s, sep, e + 1, pi + 1, e)
             ELSE splitPathLoop(s, sep, e + 1, pi, last_)

splitPathFn(s, sep) == splitPathLoop(s, sep, 0, 0, 0)

\* The calls fn(p, pidx, idx) that revSplitPathFn makes, in order, as long as
\* fn returns false.
RECURSIVE revSplitLoop(_, _, _, _, _)
revSplitLoop(s, sep, i, pi, last_) ==
    IF i < 0 THEN <<>>
    ELSE IF s[i + 1] # sep THEN revSplitLoop(s, sep, i - 1, pi, last_)
    ELSE LET ss == Slice(s, i, last_)
         IN  IF ss # <<>>
                 THEN <<[p |-> ss, pidx |-> pi, idx |-> last_]>>
                          \o revSplitLoop(s, sep, i - 1, pi + 1, i)
             ELSE revSplitLoop(s, sep, i - 1, pi, last_)

revSplitPathFn(s, sep) == revSplitLoop(s, sep, Len(s) - 1, 0, Len(s))

\* the callback of splitPathToParts on one piece sp, from the counters acc
partsStep(acc, sp) ==
    LET c == sp[1]
    IN  [rest  |-> IF c \in {"*", ":", "/"} THEN Append(acc.rest, sp) ELSE acc.rest,
         num   |-> IF c \in {"*", ":"} THEN acc.num + 1 ELSE acc.num,
         stars |-> IF c = "*" THEN acc.stars + 1 ELSE acc.stars]

RECURSIVE partsFold(_, _)
partsFold(acc, calls) ==
    IF calls = <<>> THEN acc
    ELSE partsFold(partsStep(acc, Head(calls).p), Tail(calls))

RECURSIVE partsAll(_, _)
partsAll(acc, parts) ==
    IF parts = <<>> THEN acc
    ELSE partsAll(partsFold(acc, splitPathFn(Head(parts), "/")), Tail(parts))

\* splitPathToParts(p) -> (pp, rest, num, stars)
splitPathToParts(p) ==
    LET parts == FindAllString(p)
        zero == [rest |-> <<>>, num |-> 0, stars |-> 0]
    IN  IF Len(parts) < 2
            THEN [pp |-> p, rest |-> <<>>, num |-> 0, stars |-> 0]
        ELSE LET r == partsAll(zero, Tail(parts))
             IN  [pp |-> parts[1], rest |-> r.rest, num |-> r.num, stars |-> r.stars]

----------------------------------------------------------------------------
(* node, routeMap, Router *)

\* node.hasStar
hasStar(n) == Len(n.parts) > 0 /\ Type(n.parts[Len(n.parts)]) = "*"

\* a routeMap is [nil |-> BOOLEAN, rm |-> function from prefix to nodes]
NilMap == [nil |-> TRUE, rm |-> <<>>]

\* routeMap.get: a missing key, and any key of a nil map, gives the nil slice
get(m, path) == IF path \in DOMAIN m.rm THEN m.rm[path] ELSE <<>>

\* routeMap.append on a non-nil map
rmAppend(m, path, n) ==
    [nil |-> FALSE,
     rm  |-> [k \in DOMAIN m.rm \cup {path} |->
                 IF k = path THEN Append(get(m, path), n) ELSE m.rm[k]]]

\* getMap with POST sharing the table of GET
getMapAliased(ms, method, create) ==
    LET mt == IF method = "POST" THEN "GET" ELSE method
    IN  IF mt \notin StdMethods THEN NilMap
        ELSE IF create /\ ms[mt].nil THEN [nil |-> FALSE, rm |-> <<>>]
        ELSE ms[mt]

\* Router.getMap(method, create): the method's map, nil for an unknown method
getMap(ms, method, create) ==
    IF method \notin StdMethods THEN NilMap
    ELSE IF create /\ ms[method].nil THEN [nil |-> FALSE, rm |-> <<>>]
    ELSE ms[method]

\* the prefix AddRoute files the node under: one trailing '/' is cut
routeKey(p) ==
    IF Len(p) > 1 /\ p[Len(p)] = "/" THEN Slice(p, 0, Len(p) - 1) ELSE p

\* AddRoute without its structural check
routeErrorNone(c) == ErrNil

\* the structural check of AddRoute: the error it ends with, ErrNil if none
routeError(c) ==
    IF c.stars > 1 THEN ErrTooManyStars
    ELSE IF c.stars = 1 /\ Type(c.rest[Len(c.rest)]) # "*" THEN ErrStarNotLast
    ELSE ErrNil

\* maxParams set to the count of the route just added
lastMaxParams(mp, num) == num

\* if num > r.maxParams { r.maxParams = num }
raiseMaxParams(mp, num) == IF num > mp THEN num ELSE mp

\* AddRoute storing the node before its structural check
addRouteThenCheck(ms, mp, o, method, route, h) ==
    LET c == splitPathToParts(route)
        e == routeError(c)
        m == getMap(ms, method, TRUE)
    IN  IF m.nil
            THEN [methods |-> ms, maxParams |-> mp, err |-> ErrNil, panic |-> PanicNilMap]
        ELSE [methods   |-> [ms EXCEPT ![method] =
                                rmAppend(m, routeKey(c.pp), [h |-> h, parts |-> c.rest])],
              maxParams |-> raiseMaxParams(mp, c.num),
              err       |-> IF o.NoPanicOnInvalidAddRoute THEN e ELSE ErrNil,
              panic     |-> IF o.NoPanicOnInvalidAddRoute \/ e = ErrNil THEN NoPanic ELSE e]

\* Router.AddRoute(method, route, h) on the router (ms, mp, o): the router
\* after the call, the error returned and the panic raised
addRoute(ms, mp, o, method, route, h) ==
    LET c == splitPathToParts(route)
        e == routeError(c)
        m == getMap(ms, method, TRUE)
    IN  IF e # ErrNil
            THEN [methods |-> ms, maxParams |-> mp,
                  err   |-> IF o.NoPanicOnInvalidAddRoute THEN e ELSE ErrNil,
                  panic |-> IF o.NoPanicOnInvalidAddRoute THEN NoPanic ELSE e]
        ELSE IF m.nil
            THEN [methods |-> ms, maxParams |-> mp, err |-> ErrNil, panic |-> PanicNilMap]
        ELSE [methods   |-> [ms EXCEPT ![method] =
                                rmAppend(m, routeKey(c.pp), [h |-> h, parts |-> c.rest])],
              maxParams |-> raiseMaxParams(mp, c.num),
              err       |-> ErrNil,
              panic     |-> NoPanic]

----------------------------------------------------------------------------
(* Router.match *)

\* what match returns: the handler, whether the paramsWrapper is nil, the
\* params slice and its capacity, and the panic raised
NoMatch ==
    [handler |-> NilHandler, pwNil |-> TRUE, p |-> <<>>, cap |-> 0, panic |-> NoPanic]

\* the last call of revSplitPathFn whose prefix path[:idx] has a bucket: the
\* shortest registered prefix instead of the longest
lastHit(m, path, calls, k) ==
    LET S == {j \in k..Len(calls) : get(m, Slice(path, 0, calls[j].idx)) # <<>>}
    IN  IF S = {} THEN 0 ELSE CHOOSE j \in S : \A i \in S : i <= j

\* the first call of revSplitPathFn whose prefix path[:idx] has a bucket, 0 if none
RECURSIVE firstHit(_, _, _, _)
firstHit(m, path, calls, k) ==
    IF k > Len(calls) THEN 0
    ELSE IF get(m, Slice(path, 0, calls[k].idx)) # <<>> THEN k
    ELSE firstHit(m, path, calls, k + 1)

\* the test without the comparison of lengths
qualifiesStarOnly(n, nsep) == hasStar(n)

\* the test passing every node
qualifiesAny(n, nsep) == TRUE

\* the test of the selection loop of match
qualifies(n, nsep) == Len(n.parts) = nsep \/ hasStar(n)

\* the selection loop without its break: the last node that qualifies
lastNode(nn, nsep, k) ==
    LET S == {i \in k..Len(nn) : Len(nn[i].parts) = nsep \/ hasStar(nn[i])}
    IN  IF S = {} THEN 0 ELSE CHOOSE i \in S : \A j \in S : j <= i

\* the first node of nn that qualifies, 0 if none
RECURSIVE firstNode(_, _, _)
firstNode(nn, nsep, k) ==
    IF k > Len(nn) THEN 0
    ELSE IF qualifies(nn[k], nsep) THEN k
    ELSE firstNode(nn, nsep, k + 1)

\* append(params.p, prm): a full slice is reallocated with a doubled capacity
appendParam(b, prm) ==
    [b EXCEPT !.p = Append(b.p, prm),
              !.cap = IF Len(b.p) < b.cap THEN b.cap
                      ELSE IF b.cap = 0 THEN 1 ELSE 2 * b.cap]

\* the captures without the cut of the leading '/'
paramValueWhole(p) == p
starValueWhole(path) == path

\* the value a ':' part captures from the piece p
paramValue(p) == Tail(p)

\* the value a '*' part captures: the path left after the prefix, less one byte
starValue(path) == Tail(path)

\* the callback of the capture loop on the calls of splitPathFn(path, '/'):
\* b is the result so far; the loop ends when the callback returns true
RECURSIVE capture(_, _, _, _)
capture(b, rn, path, calls) ==
    IF calls = <<>> THEN b
    ELSE LET c == Head(calls)
         IN  IF c.pidx + 1 > Len(rn.parts) THEN [b EXCEPT !.panic = PanicIndex]
             ELSE LET np == rn.parts[c.pidx + 1]
                  IN  IF Type(np) = ":"
                          THEN capture(appendParam(b, <<Name(np), paramValue(c.p)>>),
                                       rn, path, Tail(calls))
                      ELSE IF Type(np) = "*"
                          THEN appendParam(b, <<Name(np), starValue(path)>>)
                      ELSE capture(b, rn, path, Tail(calls))

\* the choice of the node without the root bucket: no handler when no prefix
\* of the path has a bucket
selectNodeNoRoot(ms, method, path) ==
    LET m == getMap(ms, method, FALSE)
        calls == revSplitPathFn(path, "/")
        hit == firstHit(m, path, calls, 1)
        nn == IF hit > 0 THEN get(m, Slice(path, 0, calls[hit].idx)) ELSE <<>>
        rest == IF hit > 0 THEN Slice(path, calls[hit].idx, Len(path)) ELSE path
        nsep == IF hit > 0 THEN calls[hit].pidx ELSE 0
        k == firstNode(nn, nsep, 1)
    IN  IF nn = <<>> \/ k = 0 THEN [h |-> NilHandler, parts |-> <<>>, rest |-> rest]
        ELSE [h |-> nn[k].h, parts |-> nn[k].parts, rest |-> rest]

\* Router.match up to the choice of the node rn: the handler and parts of rn
\* (NilHandler and no parts if no node is chosen) and the path left after the
\* prefix
selectNode(ms, method, path) ==
    LET m == getMap(ms, method, FALSE)
        calls == revSplitPathFn(path, "/")
        hit == firstHit(m, path, calls, 1)
        nn == IF hit > 0 THEN get(m, Slice(path, 0, calls[hit].idx)) ELSE get(m, <<"/">>)
        rest == IF hit > 0 THEN Slice(path, calls[hit].idx, Len(path)) ELSE path
        nsep == IF hit > 0 THEN calls[hit].pidx ELSE Count(path, "/")
        k == firstNode(nn, nsep, 1)
    IN  IF nn = <<>> \/ k = 0 THEN [h |-> NilHandler, parts |-> <<>>, rest |-> rest]
        ELSE [h |-> nn[k].h, parts |-> nn[k].parts, rest |-> rest]

\* Router.match with a paramsWrapper made without capacity
matchNoCap(ms, mp, method, path) ==
    LET rn == selectNode(ms, method, path)
    IN  IF Len(rn.parts) = 0 THEN [NoMatch EXCEPT !.handler = rn.h]
        ELSE capture([handler |-> rn.h, pwNil |-> FALSE, p |-> <<>>,
                      cap |-> 0, panic |-> NoPanic],
                     rn, rn.rest, splitPathFn(rn.rest, "/"))

\* Router.match(method, path) when getParams finds the pool empty: the
\* paramsWrapper is made by pp.New, with the capacity maxParams
match(ms, mp, method, path) ==
    LET rn == selectNode(ms, method, path)
    IN  IF Len(rn.parts) = 0 THEN [NoMatch EXCEPT !.handler = rn.h]
        ELSE capture([handler |-> rn.h, pwNil |-> FALSE, p |-> <<>>,
                      cap |-> mp, panic |-> NoPanic],
                     rn, rn.rest, splitPathFn(rn.rest, "/"))

\* the fallback made whatever NoAutoHeadToGet says
MatchAlways(ms, mp, o, method, path) ==
    LET r == match(ms, mp, method, path)
    IN  IF r.panic = NoPanic /\ r.handler = NilHandler /\ method = "HEAD"
            THEN match(ms, mp, "GET", path)
        ELSE r

\* Router.Match(method, path): match, then the GET table for a HEAD request
Match(ms, mp, o, method, path) ==
    LET r == match(ms, mp, method, path)
    IN  IF r.panic = NoPanic /\ r.handler = NilHandler /\ method = "HEAD"
            /\ ~o.NoAutoHeadToGet
            THEN match(ms, mp, "GET", path)
        ELSE r

----------------------------------------------------------------------------
(* The calls made on the router *)

\* the methods the calls are made with; "OTHER" is no standard HTTP method
AddMethods == {"GET", "POST", "OTHER"}
MatchMethods == {"GET", "POST", "HEAD", "OTHER"}

\* the patterns registered
Routes ==
    { <<"/">>,
      <<"/", "a">>,
      <<"/", "a", "/">>,
      <<"/", "a", "/", "b">>,
      <<"/", "a", "/", ":", "x">>,
      <<"/", "a", "/", ":", "x", "/", ":", "y">>,
      <<"/", "a", "/", ":", "x", "/", "b">>,
      <<"/", "a", "/", "*", "w">>,
      <<"/", ":", "x">>,
      <<"/", "a", "/", "*", "w", "/", "*", "v">>,
      <<"/", "a", "/", "*", "w", "/", "b">>,
      <<"/", "a", "/", "*", "w", "/", ":", "x">> }

\* the paths requested
Paths ==
    { <<"/">>,
      <<"/", "a">>,
      <<"/", "a", "/">>,
      <<"/", "a", "/", "b">>,
      <<"/", "a", "/", "1">>,
      <<"/", "a", "/", "1", "/", "2">>,
      <<"/", "a", "/", "1", "/", "b">>,
      <<"/", "a", "/", "b", "/", "1">>,
      <<"/", "1">>,
      <<"/", "1", "/", "2">>,
      <<"a", "/", "b">> }

\* the nodes of one routeMap, as (prefix, position) pairs, and of the router
nodesOf(m) == UNION {{<<k, i>> : i \in 1..Len(m.rm[k])} : k \in DOMAIN m.rm}
allNodes == UNION {{<<mt, x>> : x \in nodesOf(methods[mt])} : mt \in StdMethods}
numNodes == Cardinality(allNodes)

\* every registration passes a handler of its own: handlers are numbered in
\* the order of registration
freshHandler == numNodes + 1

NoCall ==
    [op |-> "none", method |-> "", path |-> <<>>, h |-> NilHandler, err |-> ErrNil,
     panic |-> NoPanic, handler |-> NilHandler, pwNil |-> TRUE, p |-> <<>>, cap |-> 0]

\* the requests ServeHTTP serves at the same time
Slots == {1, 2}

\* the nil *paramsWrapper
NilBuf == 0

\* a slot that serves no request
NoRequest ==
    [pc |-> "idle", method |-> "", path |-> <<>>, handler |-> NilHandler,
     parts |-> <<>>, rest |-> <<>>, buf |-> NilBuf, nodes |-> 0, mp |-> 0]

\* a group with no middleware and no route, which served no request
NoChain == [mw |-> <<>>, hc |-> <<>>, added |-> FALSE, served |-> FALSE, trace |-> <<>>]

\* the clients that connect to the stream id
NumClients == 2
Clients == 1..NumClients

\* the nil *multiStream
NoStream == 0

\* sse.NewRouter(): no multiStream is registered, no client is connected and
\* nothing was sent
sseNewRouter ==
    [mss     |-> NoStream,
     streams |-> <<>>,
     pc      |-> [c \in Clients |-> "idle"],
     ms      |-> [c \in Clients |-> NoStream],
     sent    |-> [err |-> "none", ms |-> NoStream]]

\* New(opts): no route, no params seen, an empty pool, no request
NewRouter(o) ==
    /\ methods = [mt \in StdMethods |-> NilMap]
    /\ maxParams = 0
    /\ opts = o
    /\ routes = <<>>
    /\ last = NoCall
    /\ heap = <<>>
    /\ pool = {}
    /\ reqs = [i \in Slots |-> NoRequest]
    /\ chain = NoChain
    /\ sse = sseNewRouter

\* the router that serves requests is built so that a rejected registration
\* returns its error and the build goes on
Init == NewRouter([NoPanicOnInvalidAddRoute |-> TRUE, NoAutoHeadToGet |-> FALSE])

\* one call of Router.AddRoute(method, route, h)
DoAddRoute(method, route, h) ==
    \E r \in {addRoute(methods, maxParams, opts, method, route, h)} :
        /\ methods' = r.methods
        /\ maxParams' = r.maxParams
        /\ routes' = IF r.err = ErrNil /\ r.panic = NoPanic
                         THEN Append(routes, [method |-> method, route |-> route, h |-> h])
                      ELSE routes
        /\ last' = [NoCall EXCEPT !.op = "AddRoute", !.method = method, !.path = route,
                                   !.h = h, !.err = r.err, !.panic = r.panic]
        /\ UNCHANGED <<opts, serveVars, chain, sse>>

\* the build phase: routes are added while no request is being served
AddRoute ==
    /\ last.op # "Match"
    /\ numNodes < MaxRoutes
    /\ \E method \in AddMethods, route \in Routes : DoAddRoute(method, route, freshHandler)

\* one call of Router.Match(method, path)
DoMatch(method, path) ==
    \E r \in {Match(methods, maxParams, opts, method, path)} :
        /\ last' = [NoCall EXCEPT !.op = "Match", !.method = method, !.path = path,
                                   !.panic = r.panic, !.handler = r.handler,
                                   !.pwNil = r.pwNil, !.p = r.p, !.cap = r.cap]
        /\ UNCHANGED <<methods, maxParams, opts, routes, serveVars, chain, sse>>

\* a request: the caller matches its method and path and holds the result
MatchCall ==
    /\ last.op # "Match"
    /\ \E method \in MatchMethods, path \in Paths : DoMatch(method, path)

\* the request is over: the handler has returned and the params are dropped
\* (they are not to be used outside of the handler)
EndRequest ==
    /\ last.op = "Match"
    /\ last' = NoCall
    /\ UNCHANGED <<methods, maxParams, opts, routes, serveVars, chain, sse>>

Next == AddRoute \/ MatchCall \/ EndRequest

Spec == Init /\ [][Next]_vars

----------------------------------------------------------------------------
(* The compiler alone: one registration of any short pattern on a new router *)

PatternChars == {"/", ":", "*", "a"}

\* the patterns of at most MaxPatLen characters that begin with '/', as the
\* patterns joinPath hands to AddRoute do
AllPatterns ==
    {<<"/">> \o s : s \in UNION {[1..n -> PatternChars] : n \in 0..(MaxPatLen - 1)}}

AddAnyRoute ==
    /\ last.op = "none"
    /\ numNodes = 0
    /\ \E method \in AddMethods, route \in AllPatterns :
           DoAddRoute(method, route, freshHandler)

NextCompile == AddAnyRoute

\* a new router, built with either way of reporting a rejected pattern
InitCompile ==
    \E o \in [NoPanicOnInvalidAddRoute : BOOLEAN, NoAutoHeadToGet : {FALSE}] : NewRouter(o)

SpecCompile == InitCompile /\ [][NextCompile]_vars

----------------------------------------------------------------------------
(* The vocabulary of the properties: patterns and paths read as the         *)
(* specification reads them, '/'-separated segments, a segment beginning    *)
(* with ':' a named parameter and one beginning with '*' a wildcard. These  *)
(* definitions use nothing of the router above.                             *)

\* the pieces of s between its '/' characters: "/a/b" gives "", "a", "b"
RECURSIVE refSplitFrom(_, _)
refSplitFrom(s, cur) ==
    IF s = <<>> THEN <<cur>>
    ELSE IF Head(s) = "/" THEN <<cur>> \o refSplitFrom(Tail(s), <<>>)
    ELSE refSplitFrom(Tail(s), Append(cur, Head(s)))

RefSplit(s) == refSplitFrom(s, <<>>)

\* where the first segment beginning with ':' or '*' starts, Len + 1 if none
RefFirstCapture(route) ==
    LET S == {i \in 1..Len(route) :
                 route[i] \in {":", "*"} /\ (i = 1 \/ route[i - 1] = "/")}
    IN  IF S = {} THEN Len(route) + 1 ELSE CHOOSE i \in S : \A j \in S : i <= j

\* the static prefix: what precedes the first capture, one trailing '/' cut
RefPrefix(route) ==
    LET pre == SubSeq(route, 1, RefFirstCapture(route) - 1)
    IN  IF Len(pre) > 1 /\ pre[Len(pre)] = "/" THEN SubSeq(pre, 1, Len(pre) - 1) ELSE pre

\* the segments from the first capture on: the parts of the pattern
RefParts(route) ==
    IF RefFirstCapture(route) > Len(route) THEN <<>>
    ELSE RefSplit(SubSeq(route, RefFirstCapture(route), Len(route)))

RefStatic(route) == RefFirstCapture(route) > Len(route)

RefIsParam(seg) == seg # <<>> /\ seg[1] = ":"
RefIsStar(seg) == seg # <<>> /\ seg[1] = "*"
RefIsLiteral(seg) == ~RefIsParam(seg) /\ ~RefIsStar(seg)

RefEndsInStar(route) ==
    LET parts == RefParts(route)
    IN  parts # <<>> /\ RefIsStar(parts[Len(parts)])

\* what a path made of the prefix of route and more segments starts with
RefBase(route) == IF RefPrefix(route) = <<"/">> THEN <<>> ELSE RefPrefix(route)

\* the path without that start
RefRest(route, path) == SubSeq(path, Len(RefBase(route)) + 1, Len(path))

RefStartsWith(path, pre) == Len(path) >= Len(pre) /\ SubSeq(path, 1, Len(pre)) = pre

\* path is the prefix of route followed by one non-empty segment per part of
\* route, equal to the part where the part is a literal; route has no wildcard
RefConforms(route, path) ==
    LET parts == RefParts(route)
        k == Len(parts)
    IN  IF k = 0 THEN path = RefPrefix(route)
        ELSE /\ RefStartsWith(path, RefBase(route))
             /\ LET sp == RefSplit(RefRest(route, path))
                IN  /\ Len(sp) = k + 1
                    /\ sp[1] = <<>>
                    /\ \A i \in 1..k :
                           /\ sp[i + 1] # <<>>
                           /\ ~RefIsStar(parts[i])
                           /\ RefIsLiteral(parts[i]) => sp[i + 1] = parts[i]

\* the (name, value) pairs of the parameter parts, in pattern order
RECURSIVE refPairs(_, _, _)
refPairs(parts, sp, i) ==
    IF i > Len(parts) THEN <<>>
    ELSE (IF RefIsParam(parts[i]) THEN <<<<Tail(parts[i]), sp[i + 1]>>>> ELSE <<>>)
             \o refPairs(parts, sp, i + 1)

RefParams(route, path) == refPairs(RefParts(route), RefSplit(RefRest(route, path)), 1)

\* the registrations under method, as indices of routes
RefMethodRoutes(method) == {i \in DOMAIN routes : routes[i].method = method}

\* a request answered: Match was called and returned
Matched == last.op = "Match" /\ last.panic = NoPanic

----------------------------------------------------------------------------
(* C1 *)

\* route i is static, was registered under the method of the last request,
\* and the last request asked for its pattern
C1_Asked(i) ==
    /\ routes[i].method = last.method
    /\ routes[i].route = last.path
    /\ RefStatic(routes[i].route)

\* C1 as claimed: every registered static route is returned, with empty
\* params, by a match of its own pattern, whatever else is registered
C1_StaticAlways ==
    last.op = "Match" =>
        \A i \in DOMAIN routes :
            C1_Asked(i) =>
                last.panic = NoPanic /\ last.handler = routes[i].h /\ last.p = <<>>

\* no route registered before i under the same method and prefix is static
\* or ends in a wildcard
C1_First(i) ==
    \A j \in 1..(i - 1) :
        (routes[j].method = routes[i].method
            /\ RefPrefix(routes[j].route) = RefPrefix(routes[i].route))
        => ~RefStatic(routes[j].route) /\ ~RefEndsInStar(routes[j].route)

\* the pattern is the prefix it is filed under: no trailing '/', the root aside
C1_NoTrailingSlash(i) == RefPrefix(routes[i].route) = routes[i].route

\* C1, amended: a registered static route whose pattern does not end in '/'
\* (the root aside) is returned, with empty params, by a match of its own
\* pattern, when no route registered before it under the same method and
\* static prefix is static or ends in a wildcard
C1_StaticFirst ==
    last.op = "Match" =>
        \A i \in DOMAIN routes :
            (C1_Asked(i) /\ C1_NoTrailingSlash(i) /\ C1_First(i)) =>
                /\ last.panic = NoPanic
                /\ last.handler = routes[i].h
                /\ last.p = <<>>
                /\ last.pwNil

\* a static route registered second, after a parameter route of its prefix,
\* is matched by its own pattern
C1_Witness ==
    /\ last.op = "Match"
    /\ Len(routes) = 2
    /\ C1_Asked(2) /\ C1_NoTrailingSlash(2) /\ C1_First(2)
    /\ routes[1].method = routes[2].method
    /\ RefPrefix(routes[1].route) = RefPrefix(routes[2].route)
    /\ last.handler = routes[2].h

----------------------------------------------------------------------------
(* C2 *)

\* route i was registered under the method of the last request, which asked
\* for a path made of its prefix and one segment per part
C2_Asked(i) ==
    /\ routes[i].method = last.method
    /\ RefConforms(routes[i].route, last.path)

\* C2: the only route of its method, asked with its prefix followed by one
\* non-empty segment per part (the literal parts repeated), is returned with
\* one (name, segment) pair per parameter part, in pattern order
C2_SingleRoute ==
    last.op = "Match" =>
        \A i \in DOMAIN routes :
            (C2_Asked(i) /\ RefMethodRoutes(last.method) = {i}) =>
                /\ last.panic = NoPanic
                /\ last.handler = routes[i].h
                /\ last.p = RefParams(routes[i].route, last.path)

\* '/a/:x/b', alone under its method, asked with '/a/1/b'
C2_Witness ==
    /\ last.op = "Match"
    /\ \E i \in DOMAIN routes :
           /\ C2_Asked(i) /\ RefMethodRoutes(last.method) = {i}
           /\ Len(RefParts(routes[i].route)) = 2
           /\ RefIsLiteral(RefParts(routes[i].route)[2])
           /\ last.p = <<<<<<"x">>, <<"1">>>>>>

----------------------------------------------------------------------------
(* C3 *)

\* route i is 'P/*name', registered under the method of the last request,
\* which asked for P followed by '/' and a non-empty remainder
C3_Asked(i) ==
    /\ routes[i].method = last.method
    /\ Len(RefParts(routes[i].route)) = 1
    /\ RefEndsInStar(routes[i].route)
    /\ RefStartsWith(last.path, RefBase(routes[i].route))
    /\ Len(RefRest(routes[i].route, last.path)) > 1
    /\ Head(RefRest(routes[i].route, last.path)) = "/"

\* the name of the wildcard of route i and the remainder asked for
C3_Pair(i) ==
    <<Tail(RefParts(routes[i].route)[1]), Tail(RefRest(routes[i].route, last.path))>>

\* C3 as claimed: a registered route 'P/*name' is returned for P/R, with the
\* one param (name, R), for every non-empty R
C3_WildcardAlways ==
    last.op = "Match" =>
        \A i \in DOMAIN routes :
            C3_Asked(i) =>
                /\ last.panic = NoPanic
                /\ last.handler = routes[i].h
                /\ last.p = <<C3_Pair(i)>>

\* q is path cut at its end or right before one of its '/'
RefBoundaryPrefix(path, q) ==
    RefStartsWith(path, q) /\ (Len(q) = Len(path) \/ path[Len(q) + 1] = "/")

\* no route of the method has a longer static prefix that ends at a '/'
\* boundary of the path, or at its end
C3_Deepest(i) ==
    \A j \in RefMethodRoutes(last.method) :
        ~(/\ Len(RefPrefix(routes[j].route)) > Len(RefPrefix(routes[i].route))
          /\ RefBoundaryPrefix(last.path, RefPrefix(routes[j].route)))

\* no route registered before i under its method and prefix has as many
\* parts as the remainder has '/', or ends in a wildcard
C3_First(i) ==
    \A j \in 1..(i - 1) :
        (routes[j].method = routes[i].method
            /\ RefPrefix(routes[j].route) = RefPrefix(routes[i].route))
        => /\ Len(RefParts(routes[j].route))
                  # Len(RefSplit(RefRest(routes[i].route, last.path))) - 1
           /\ ~RefEndsInStar(routes[j].route)

\* C3, amended: a registered route 'P/*name' is returned for P/R, with the one
\* param (name, R), for every non-empty R, when no route of the method has a
\* longer static prefix ending at a '/' boundary of the path and no route
\* registered earlier under the prefix P has as many parts as '/R' has '/'
\* characters or ends in a wildcard
C3_WildcardFirst ==
    last.op = "Match" =>
        \A i \in DOMAIN routes :
            (C3_Asked(i) /\ C3_Deepest(i) /\ C3_First(i)) =>
                /\ last.panic = NoPanic
                /\ last.handler = routes[i].h
                /\ last.p = <<C3_Pair(i)>>

\* '/a/*w' registered after '/a/:x', asked with '/a/1/2': w is '1/2'
C3_Witness ==
    /\ last.op = "Match"
    /\ Len(routes) = 2
    /\ C3_Asked(2) /\ C3_Deepest(2) /\ C3_First(2)
    /\ routes[1].method = routes[2].method
    /\ RefPrefix(routes[1].route) = RefPrefix(routes[2].route)
    /\ last.p = <<<<<<"w">>, <<"1", "/", "2">>>>>>

----------------------------------------------------------------------------
(* C4 *)

\* every part of route i is a parameter, and there is one at least
C4_ParamOnly(i) ==
    /\ RefParts(routes[i].route) # <<>>
    /\ \A k \in DOMAIN RefParts(routes[i].route) : RefIsParam(RefParts(routes[i].route)[k])

\* routes i and j are the two routes of the method of the last request,
\* parameter-only, of one prefix and of different lengths
C4_Pair(i, j) ==
    /\ i # j
    /\ RefMethodRoutes(last.method) = {i, j}
    /\ C4_ParamOnly(i) /\ C4_ParamOnly(j)
    /\ RefPrefix(routes[i].route) = RefPrefix(routes[j].route)
    /\ Len(RefParts(routes[i].route)) # Len(RefParts(routes[j].route))

\* C4: of two parameter-only routes of one prefix and different lengths, in
\* either order of registration, the one with as many parts as the path has
\* segments left is returned, with one pair per segment
C4_BySegmentCount ==
    last.op = "Match" =>
        \A i, j \in DOMAIN routes :
            (C4_Pair(i, j) /\ RefConforms(routes[i].route, last.path)) =>
                /\ last.panic = NoPanic
                /\ last.handler = routes[i].h
                /\ last.p = RefParams(routes[i].route, last.path)

\* '/a/:x' registered after '/a/:x/:y' and asked with '/a/1', and the longer
\* route asked with '/a/1/2' when it was registered second
C4_Witness ==
    /\ last.op = "Match"
    /\ Len(routes) = 2
    /\ C4_Pair(1, 2)
    /\ RefConforms(routes[2].route, last.path)
    /\ last.handler = routes[2].h
    /\ last.p = <<<<<<"x">>, <<"1">>>>>>

----------------------------------------------------------------------------
(* C5 *)

\* the routes the last request may have been answered with: those of its
\* method, or of GET for a HEAD request, that were registered with the handler
C5_Selected(i) ==
    /\ routes[i].h = last.handler
    /\ routes[i].method \in {last.method} \cup (IF last.method = "HEAD" THEN {"GET"} ELSE {})

\* the segments of the path after the prefix of route i
C5_Segments(i) == Tail(RefSplit(RefRest(routes[i].route, last.path)))

\* C5 as claimed: every literal part of the route match returns equals the
\* segment of the path at its position
C5_LiteralsEqual ==
    (Matched /\ last.handler # NilHandler) =>
        \A i \in DOMAIN routes :
            C5_Selected(i) =>
                \A k \in DOMAIN RefParts(routes[i].route) :
                    (RefIsLiteral(RefParts(routes[i].route)[k]) /\ k <= Len(C5_Segments(i)))
                    => C5_Segments(i)[k] = RefParts(routes[i].route)[k]

----------------------------------------------------------------------------
(* C7 *)

\* C7: a match under a method returns only a handler registered under that
\* method (under GET too, for a HEAD request), and with no route registered
\* under the method it returns no handler and no params
C7_MethodIsolation ==
    last.op = "Match" =>
        /\ last.handler # NilHandler => \E i \in DOMAIN routes : C5_Selected(i)
        /\ (RefMethodRoutes(last.method) = {} /\ last.method # "HEAD") =>
               last.handler = NilHandler /\ last.p = <<>> /\ last.pwNil

\* only GET '/a/:x' is registered and POST '/a/1' is asked for
C7_Witness ==
    /\ last.op = "Match"
    /\ last.method = "POST"
    /\ Len(routes) = 1
    /\ routes[1].method = "GET"
    /\ RefConforms(routes[1].route, last.path)
    /\ RefParts(routes[1].route) # <<>>
    /\ last.handler = NilHandler

----------------------------------------------------------------------------
(* C8 *)

\* C8 as claimed: match returns for every method and every path, it never
\* raises a fault
C8_MatchNeverPanics == last.op = "Match" => last.panic = NoPanic

----------------------------------------------------------------------------
(* C6 *)

\* the routes registered under method with the static prefix q
RefBucket(method, q) ==
    {i \in RefMethodRoutes(method) : RefPrefix(routes[i].route) = q}

\* the lengths of the registered prefixes of method that end at the end of
\* path or right before one of its '/'
RefHits(method, path) ==
    {b \in 1..Len(path) :
        /\ b = Len(path) \/ path[b + 1] = "/"
        /\ RefBucket(method, SubSeq(path, 1, b)) # {}}

\* the length of the winning prefix: the longest of them, 0 for the root bucket
RefWinning(method, path) ==
    LET hits == RefHits(method, path)
    IN  IF hits = {} THEN 0 ELSE CHOOSE b \in hits : \A c \in hits : c <= b

\* the bucket match looks into when the winning prefix has length w
RefWinningBucket(method, path, w) ==
    IF w = 0 THEN RefBucket(method, <<"/">>) ELSE RefBucket(method, SubSeq(path, 1, w))

\* nsep: the '/' characters of the path left after the winning prefix
RefNsep(path, w) == Len(RefSplit(SubSeq(path, w + 1, Len(path)))) - 1

\* the routes of the winning bucket that qualify
RefQualifying(method, path) ==
    LET w == RefWinning(method, path)
        nsep == RefNsep(path, w)
    IN  {i \in RefWinningBucket(method, path, w) :
            Len(RefParts(routes[i].route)) = nsep \/ RefEndsInStar(routes[i].route)}

\* the first of them in registration order, 0 if there is none
RefChosen(method, path) ==
    LET q == RefQualifying(method, path)
    IN  IF q = {} THEN 0 ELSE CHOOSE i \in q : \A j \in q : i <= j

\* C6: every registration is kept, and a match of a path beginning with '/'
\* returns the first registered node of the winning prefix that has nsep
\* parts or ends in a wildcard, or no handler if there is none; a wildcard
\* chosen this way over parameter routes captures the whole remainder, and a
\* parameter route chosen over a wildcard captures one segment per part
C6_RegistrationOrder ==
    /\ Len(routes) = numNodes
    /\ (last.op = "Match" /\ last.method # "HEAD" /\ RefStartsWith(last.path, <<"/">>)) =>
           \E c \in {RefChosen(last.method, last.path)} :
               /\ last.panic = NoPanic
               /\ last.handler = IF c = 0 THEN NilHandler ELSE routes[c].h
               /\ (c # 0 /\ C3_Asked(c)) => last.p = <<C3_Pair(c)>>
               /\ (c # 0 /\ C4_ParamOnly(c) /\ C2_Asked(c)) =>
                      last.p = RefParams(routes[c].route, last.path)

\* '/a/*w' before '/a/:x/:y', asked with '/a/1/2': the wildcard route answers
C6_Witness ==
    /\ last.op = "Match"
    /\ Len(routes) = 2
    /\ routes[1].method = last.method /\ routes[2].method = last.method
    /\ RefEndsInStar(routes[1].route)
    /\ C4_ParamOnly(2) /\ C2_Asked(2)
    /\ last.handler = routes[1].h
    /\ last.p = <<<<<<"w">>, <<"1", "/", "2">>>>>>

\* the same two routes in the other order: the parameter route answers
C6_WitnessReverse ==
    /\ last.op = "Match"
    /\ Len(routes) = 2
    /\ routes[1].method = last.method /\ routes[2].method = last.method
    /\ RefEndsInStar(routes[2].route)
    /\ C4_ParamOnly(1) /\ C2_Asked(1) /\ Len(RefParts(routes[1].route)) = 2
    /\ last.handler = routes[1].h
    /\ last.p = <<<<<<"x">>, <<"1">>>>, <<<<"y">>, <<"2">>>>>>

----------------------------------------------------------------------------
(* C9, C10 *)

\* the positions, among the '/'-separated segments of route, of the segments
\* that begin with '*'
RefStarSegments(route) ==
    {k \in DOMAIN RefSplit(route) : RefIsStar(RefSplit(route)[k])}

\* the last call was an AddRoute that failed with err, as the options say:
\* returned under NoPanicOnInvalidAddRoute, raised otherwise, nothing registered
RefRejected(err) ==
    /\ IF opts.NoPanicOnInvalidAddRoute
           THEN last.err = err /\ last.panic = NoPanic
       ELSE last.panic = err
    /\ numNodes = 0
    /\ routes = <<>>
    /\ maxParams = 0

\* C9 as claimed: a pattern with two or more '*' segments is rejected with
\* ErrTooManyStars and nothing is registered
C9_TwoStarsRejected ==
    (last.op = "AddRoute" /\ Cardinality(RefStarSegments(last.path)) >= 2)
        => RefRejected(ErrTooManyStars)

\* C10 as claimed: a pattern with exactly one '*' segment, followed by a
\* literal or a ':' segment, is rejected with ErrStarNotLast and nothing is
\* registered
C10_StarNotLastRejected ==
    (/\ last.op = "AddRoute"
     /\ Cardinality(RefStarSegments(last.path)) = 1
     /\ \E k \in RefStarSegments(last.path) :
            \E j \in (k + 1)..Len(RefSplit(last.path)) : RefSplit(last.path)[j] # <<>>)
        => RefRejected(ErrStarNotLast)

----------------------------------------------------------------------------
(* Router.ServeHTTP and the pool of paramsWrappers *)

\* the registrations and requests of the router that serves
ServeRoutes ==
    { <<"/">>,
      <<"/", ":", "x">>,
      <<"/", ":", "x", "/", ":", "y", "/", ":", "z">>,
      <<"/", ":", "x", "/", ":", "y", "/", ":", "z", "/", ":", "u">> }

\* the requests served, as (method, path) pairs
ServeRequests ==
    { <<"GET", <<"/">>>>,
      <<"GET", <<"/", "1">>>>,
      <<"GET", <<"/", "1", "/", "2", "/", "3">>>>,
      <<"POST", <<"/", "1">>>> }

\* pp.New: a paramsWrapper of length 0 and capacity maxParams; the history
\* field stale says that it was last released after maxParams had grown
\* since its acquisition
newBuf(mp) == [p |-> <<>>, cap |-> mp, stale |-> FALSE]

\* what pp.Get() may return: a wrapper Put before, or a new one (Get may
\* treat the pool as empty, which is also what a wrapper that the garbage
\* collector removed from the pool comes to); numbers above Len(hp) are new
poolGet(pl, hp) == pl \cup (IF Len(hp) < MaxBufs THEN {Len(hp) + 1} ELSE {})

\* the Get that leaves the wrapper in the pool
takeNone(pl, b) == pl

\* pp.Get() takes the wrapper out of the pool
take(pl, b) == pl \ {b}

\* the release that keeps the contents
truncateNone(p) == p

\* p.p = p.p[:0]
truncate(p) == <<>>

\* the test of putParams without the comparison of capacities
keepsAny(b, hp, mp) == b # NilBuf

\* the test of putParams: the wrapper goes back to the pool
keeps(b, hp, mp) == b # NilBuf /\ hp[b].cap = mp

\* ServeHTTP calls r.match(req.Method, u): match chooses the node; without
\* parts it returns at once, otherwise it takes a paramsWrapper (getParams)
ServeMatch(i, method, path) ==
    /\ reqs[i].pc = "idle"
    /\ \E rn \in {selectNode(methods, method, path)} :
         LET r == [NoRequest EXCEPT !.method = method, !.path = path, !.handler = rn.h,
                                    !.parts = rn.parts, !.rest = rn.rest,
                                    !.nodes = numNodes, !.mp = maxParams]
         IN  IF Len(rn.parts) = 0
                 THEN /\ reqs' = [reqs EXCEPT ![i] =
                                     [r EXCEPT !.pc = IF rn.h = NilHandler THEN "notfound"
                                                      ELSE "handler"]]
                      /\ UNCHANGED <<heap, pool>>
             ELSE \E b \in poolGet(pool, heap) :
                      /\ heap' = IF b > Len(heap) THEN Append(heap, newBuf(maxParams)) ELSE heap
                      /\ pool' = take(pool, b)
                      /\ reqs' = [reqs EXCEPT ![i] = [r EXCEPT !.pc = "acquired", !.buf = b]]
    /\ UNCHANGED <<methods, maxParams, opts, routes, last, chain, sse>>

ServeRequest(S) == \E i \in S, rq \in ServeRequests : ServeMatch(i, rq[1], rq[2])

\* the capture loop of match on the wrapper taken, then ServeHTTP calls the handler
Capture(i) ==
    /\ reqs[i].pc = "acquired"
    /\ \E c \in {capture([handler |-> reqs[i].handler, pwNil |-> FALSE,
                          p |-> heap[reqs[i].buf].p, cap |-> heap[reqs[i].buf].cap,
                          panic |-> NoPanic],
                         [h |-> reqs[i].handler, parts |-> reqs[i].parts],
                         reqs[i].rest, splitPathFn(reqs[i].rest, "/"))} :
         /\ heap' = [heap EXCEPT ![reqs[i].buf].p = c.p, ![reqs[i].buf].cap = c.cap]
         /\ reqs' = [reqs EXCEPT ![i].pc = IF c.panic # NoPanic THEN "panic" ELSE "handler"]
    /\ UNCHANGED <<methods, maxParams, opts, routes, last, pool, chain, sse>>

CaptureStep(S) == \E i \in S : Capture(i)

\* the handler returns and ServeHTTP calls r.putParams(p)
HandlerReturn(i) ==
    /\ reqs[i].pc = "handler"
    /\ LET b == reqs[i].buf
       IN  IF b = NilBuf THEN UNCHANGED <<heap, pool>>
           ELSE IF keeps(b, heap, maxParams)
               THEN /\ heap' = [heap EXCEPT ![b].p = truncate(heap[b].p),
                                            ![b].stale = maxParams > reqs[i].mp]
                    /\ pool' = pool \cup {b}
           ELSE /\ heap' = [heap EXCEPT ![b].stale = maxParams > reqs[i].mp]
                /\ UNCHANGED pool
    /\ reqs' = [reqs EXCEPT ![i] = NoRequest]
    /\ UNCHANGED <<methods, maxParams, opts, routes, last, chain, sse>>

HandlerReturnStep(S) == \E i \in S : HandlerReturn(i)

\* no handler was found: ServeHTTP has called r.NotFoundHandler and returns
NotFoundReturn(S) ==
    /\ \E i \in S :
           /\ reqs[i].pc = "notfound"
           /\ reqs' = [reqs EXCEPT ![i] = NoRequest]
    /\ UNCHANGED <<methods, maxParams, opts, routes, last, heap, pool, chain, sse>>

\* the requests in the slots S go on
Serving(S) ==
    \/ ServeRequest(S)
    \/ CaptureStep(S)
    \/ HandlerReturnStep(S)
    \/ NotFoundReturn(S)

\* a route is added, also after requests were served and while one is
ServeAddRoute ==
    /\ numNodes < MaxServeRoutes
    /\ \E route \in ServeRoutes : DoAddRoute("GET", route, freshHandler)

\* the router serves one request at a time while its table grows
NextServe == ServeAddRoute \/ Serving({1})

SpecServe == Init /\ [][NextServe]_vars

\* the build phase: a route is added before the first request
BuildRoute ==
    /\ \A i \in Slots : reqs[i].pc = "idle"
    /\ heap = <<>>
    /\ ServeAddRoute

\* the router serves concurrent requests from a table that is frozen once
\* the first paramsWrapper is made
NextFrozen == BuildRoute \/ Serving(Slots)

SpecFrozen == Init /\ [][NextFrozen]_vars

----------------------------------------------------------------------------
(* C11 *)

\* request i holds a paramsWrapper
Holds(i) == reqs[i].pc \in {"acquired", "handler"} /\ reqs[i].buf # NilBuf

\* the params of the wrapper request i holds
ParamsOf(i) == heap[reqs[i].buf].p

\* C11 as claimed: the paramsWrapper getParams hands out has length 0 and the
\* capacity maxParams of the time, also when it was put into the pool before
\* an AddRoute raised maxParams
C11_AcquiredFits ==
    \A i \in Slots :
        reqs[i].pc = "acquired" =>
            Len(ParamsOf(i)) = 0 /\ heap[reqs[i].buf].cap = reqs[i].mp

----------------------------------------------------------------------------
(* C12 *)

----------------------------------------------------------------------------
(* C13 *)

\* the route request i was answered with: handlers are numbered as routes is
RouteOf(i) == routes[reqs[i].handler].route

\* C13: a paramsWrapper handed out is empty, and the params the handler is
\* called with are the pairs of the request's own path, whatever the wrapper
\* held before
C13_ReusedEmpty ==
    \A i \in Slots :
        /\ reqs[i].pc = "acquired" => ParamsOf(i) = <<>>
        /\ (reqs[i].pc = "handler" /\ reqs[i].buf # NilBuf
                /\ RefConforms(RouteOf(i), reqs[i].path))
           => ParamsOf(i) = RefParams(RouteOf(i), reqs[i].path)

\* the handler of '/:x' is called with x = '1' on a wrapper that was made
\* before maxParams grew, released and taken again
C13_Witness ==
    \E i \in Slots :
        /\ reqs[i].pc = "handler" /\ reqs[i].buf # NilBuf
        /\ heap[reqs[i].buf].cap < reqs[i].mp
        /\ RefConforms(RouteOf(i), reqs[i].path)
        /\ ParamsOf(i) = <<<<<<"x">>, <<"1">>>>>>

----------------------------------------------------------------------------
(* C14 *)

\* what Router.match returns for the request of slot i when it runs alone
Alone(i) == match(methods, maxParams, reqs[i].method, reqs[i].path)

\* C14: with the table frozen, the handler of every request is called with
\* the handler and params its match returns alone, a wrapper held by a
\* request is not in the pool and held by no other request, and no step of
\* a request changes the table
C14_Isolated ==
    /\ [](\A i \in Slots :
              /\ reqs[i].pc = "handler" =>
                     /\ reqs[i].handler = Alone(i).handler
                     /\ (IF reqs[i].buf = NilBuf THEN <<>> ELSE ParamsOf(i)) = Alone(i).p
              /\ Holds(i) =>
                     /\ reqs[i].buf \notin pool
                     /\ \A j \in Slots \ {i} : reqs[j].buf # reqs[i].buf)
    /\ [][reqs' # reqs => (methods' = methods /\ maxParams' = maxParams)]_vars

\* two requests are in their handlers at the same time, each with the params
\* of its own path in a wrapper of its own
C14_Witness ==
    /\ reqs[1].pc = "handler" /\ reqs[2].pc = "handler"
    /\ reqs[1].buf # NilBuf /\ reqs[2].buf # NilBuf
    /\ ParamsOf(1) = <<<<<<"x">>, <<"1">>>>>>
    /\ Len(ParamsOf(2)) = 3

----------------------------------------------------------------------------
(* C19 *)

\* C19 as claimed: NotFoundHandler is called only for a path that matches
\* under no method; a path that matches under another method than the
\* request's goes to MethodNotAllowedHandler
C19_MethodNotAllowed ==
    \A i \in Slots :
        (reqs[i].pc = "notfound" /\ reqs[i].nodes = numNodes) =>
            \A m \in StdMethods \ {reqs[i].method} : RefChosen(m, reqs[i].path) = 0

----------------------------------------------------------------------------
(* C15, C16, C17 *)

\* the segments joined by '/'
RECURSIVE RefJoin(_)
RefJoin(segs) ==
    IF segs = <<>> THEN <<>>
    ELSE IF Len(segs) = 1 THEN segs[1]
    ELSE segs[1] \o <<"/">> \o RefJoin(Tail(segs))

\* what the parts before the last one leave of the path: the segments from
\* the position of the last part on, joined; empty if there are none
RefUnconsumed(route, path) ==
    LET sp == Tail(RefSplit(RefRest(route, path)))
        k == Len(RefParts(route))
    IN  IF Len(sp) < k THEN <<>> ELSE RefJoin(SubSeq(sp, k, Len(sp)))

\* the parts of route that capture: the ':' and '*' parts
RefCaptures(route) ==
    {k \in DOMAIN RefParts(route) :
        RefIsParam(RefParts(route)[k]) \/ RefIsStar(RefParts(route)[k])}

\* the last request was answered with the handler of route i
Answered(i) == Matched /\ last.handler # NilHandler /\ C5_Selected(i)

\* C15 as claimed: when the route answered ends in a wildcard, the params end
\* with the pair of the wildcard's name and the unconsumed remainder of the
\* path, also when that remainder is empty
C15_WildcardEntry ==
    \A i \in DOMAIN routes :
        (Answered(i) /\ RefEndsInStar(routes[i].route)) =>
            /\ last.p # <<>>
            /\ last.p[Len(last.p)] =
                   <<Tail(RefParts(routes[i].route)[Len(RefParts(routes[i].route))]),
                     RefUnconsumed(routes[i].route, last.path)>>

\* C16 as claimed: the route 'P/*name' never answers the bare path P
C16_BarePrefix ==
    \A i \in DOMAIN routes :
        (Answered(i) /\ RefEndsInStar(routes[i].route)) =>
            last.path # RefBase(routes[i].route)

\* C17 as claimed: the params returned with the handler of a route are as
\* many as the route has ':' and '*' parts
C17_ParamCount ==
    \A i \in DOMAIN routes :
        Answered(i) => Len(last.p) = Cardinality(RefCaptures(routes[i].route))

----------------------------------------------------------------------------
(* Router.Match and the HEAD requests *)

HeadRoutes == { <<"/", "a">>, <<"/", "a", "/", ":", "x">> }

HeadPaths == { <<"/", "a">>, <<"/", "a", "/", "1">>, <<"/", "b">> }

\* a new router with either setting of NoAutoHeadToGet
InitHead ==
    \E o \in [NoPanicOnInvalidAddRoute : {TRUE}, NoAutoHeadToGet : BOOLEAN] : NewRouter(o)

\* a route is added under GET or HEAD, with a handler of its own or with the
\* nil handler
HeadAddRoute ==
    /\ last.op # "Match"
    /\ numNodes < MaxRoutes
    /\ \E method \in {"GET", "HEAD"}, route \in HeadRoutes, h \in {freshHandler, NilHandler} :
           DoAddRoute(method, route, h)

HeadMatchCall ==
    /\ last.op # "Match"
    /\ \E method \in {"HEAD", "GET", "POST"}, path \in HeadPaths : DoMatch(method, path)

NextHead == HeadAddRoute \/ HeadMatchCall \/ EndRequest

SpecHead == InitHead /\ [][NextHead]_vars

----------------------------------------------------------------------------
(* C18 *)

\* the handler the first route of method that matches path was registered
\* with, NilHandler if no route matches
RefHandler(method, path) ==
    IF RefChosen(method, path) = 0 THEN NilHandler
    ELSE routes[RefChosen(method, path)].h

\* the last call returned what match returns for method
Returned(method) ==
    /\ last.handler = RefHandler(method, last.path)
    /\ last.p = match(methods, maxParams, method, last.path).p

\* C18 as claimed: a HEAD request is answered by the HEAD route that matches
\* if there is one, by the GET table if there is none and NoAutoHeadToGet is
\* unset, and by no handler if it is set; other methods never fall back
C18_HeadFallback ==
    last.op = "Match" =>
        IF last.method # "HEAD" THEN Returned(last.method)
        ELSE IF RefChosen("HEAD", last.path) # 0 THEN Returned("HEAD")
        ELSE IF ~opts.NoAutoHeadToGet THEN Returned("GET")
        ELSE last.handler = NilHandler

\* C18, amended: a HEAD request is answered by the HEAD route that matches if
\* there is one and its handler is not nil; by the GET table if NoAutoHeadToGet
\* is unset and no HEAD route matches or the one that matches has a nil
\* handler; and by no handler otherwise; other methods never fall back
C18_HeadFallbackNonNil ==
    last.op = "Match" =>
        IF last.method # "HEAD" THEN Returned(last.method)
        ELSE IF RefHandler("HEAD", last.path) # NilHandler THEN Returned("HEAD")
        ELSE IF ~opts.NoAutoHeadToGet THEN Returned("GET")
        ELSE last.handler = NilHandler

\* HEAD '/a/1' with only GET '/a/:x' registered and NoAutoHeadToGet unset:
\* the GET handler and x = '1'
C18_Witness ==
    /\ last.op = "Match" /\ last.method = "HEAD"
    /\ ~opts.NoAutoHeadToGet
    /\ RefChosen("HEAD", last.path) = 0
    /\ RefHandler("GET", last.path) # NilHandler
    /\ last.handler = RefHandler("GET", last.path)
    /\ last.p = <<<<<<"x">>, <<"1">>>>>>

\* the same request with NoAutoHeadToGet set: no handler
C18_WitnessNoAuto ==
    /\ last.op = "Match" /\ last.method = "HEAD"
    /\ opts.NoAutoHeadToGet
    /\ RefChosen("HEAD", last.path) = 0
    /\ RefHandler("GET", last.path) # NilHandler
    /\ last.handler = NilHandler

----------------------------------------------------------------------------
(* groupHandlerChain.Serve: the middlewares of the group, then the handlers
   of the route, driven by Context.Next *)

MaxMw == 3
MaxHc == 2

\* what a Handler returns: nil, Break, or another Response
Responses == {"nil", "Break", "resp"}

\* the middlewares: one that returns nil, one that returns Break, one that
\* returns a Response, one that calls ctx.Next() and returns nil, one that
\* calls ctx.NextMiddleware() and returns nil, and LogRequests, which calls
\* ctx.NextMiddleware(), then ctx.Next(), and returns nil
MwKinds == {"nil", "Break", "resp", "Next", "NextMiddleware", "LogRequests"}

\* the handlers of a route: one that returns nil, one that returns a Response
HcKinds == {"nil", "resp"}

\* the Context Serve starts with: both closures set, both indexes 0
newCtx == [mwIdx |-> 0, hIdx |-> 0, nextMW |-> TRUE, next |-> TRUE, done |-> FALSE,
           trace |-> <<>>]

called(c, of, i) ==
    [c EXCEPT !.trace = Append(@, [ev |-> "call", of |-> of, i |-> i, r |-> "nil"])]

returned(c, of, i, r) ==
    [c EXCEPT !.trace = Append(@, [ev |-> "return", of |-> of, i |-> i, r |-> r])]

\* if !ctx.done && r != Break { r.WriteToCtx(ctx) }
writeToCtx(c, r) == IF ~c.done /\ r # "Break" THEN [c EXCEPT !.done = TRUE] ELSE c

\* a handler of the route runs: hc[i](ctx)
callHandler(hc, c, i) ==
    [c |-> returned(called(c, "h", i), "h", i, hc[i]), r |-> hc[i]]

RECURSIVE next(_, _)
\* the closure ctx.next
next(hc, c) ==
    IF c.hIdx < Len(hc)
        THEN LET i == c.hIdx + 1
                 out == callHandler(hc, [c EXCEPT !.hIdx = i], i)
             IN  IF out.r # "nil"
                     THEN [c |-> [writeToCtx(out.c, out.r) EXCEPT !.next = FALSE], r |-> out.r]
                 ELSE next(hc, out.c)
    ELSE [c |-> [c EXCEPT !.next = FALSE], r |-> "nil"]

\* Context.NextHandler
NextHandler(hc, c) == IF c.next THEN next(hc, c) ELSE [c |-> c, r |-> "nil"]

RECURSIVE nextMW(_, _, _)
RECURSIVE callMiddleware(_, _, _, _)

\* Context.NextMiddleware
NextMiddleware(mw, hc, c) == IF c.nextMW THEN nextMW(mw, hc, c) ELSE [c |-> c, r |-> "nil"]

\* Context.Next, had it stopped after the middlewares
NextOnlyMiddleware(mw, hc, c) == NextMiddleware(mw, hc, c)

\* Context.Next
CtxNext(mw, hc, c) ==
    LET a == NextMiddleware(mw, hc, c)
    IN  IF a.r # "nil" THEN a ELSE NextHandler(hc, a.c)

\* a middleware of the group runs: mw[i](ctx)
callMiddleware(mw, hc, c, i) ==
    LET c1 == called(c, "mw", i)
    IN  CASE mw[i] = "Next" ->
                 [c |-> returned(CtxNext(mw, hc, c1).c, "mw", i, "nil"), r |-> "nil"]
          [] mw[i] = "NextMiddleware" ->
                 [c |-> returned(NextMiddleware(mw, hc, c1).c, "mw", i, "nil"), r |-> "nil"]
          [] mw[i] = "LogRequests" ->
                 [c |-> returned(CtxNext(mw, hc, NextMiddleware(mw, hc, c1).c).c,
                                 "mw", i, "nil"),
                  r |-> "nil"]
          [] OTHER -> [c |-> returned(c1, "mw", i, mw[i]), r |-> mw[i]]

\* the closure ctx.nextMW
nextMW(mw, hc, c) ==
    IF c.mwIdx < Len(mw)
        THEN LET i == c.mwIdx + 1
                 out == callMiddleware(mw, hc, [c EXCEPT !.mwIdx = i], i)
             IN  IF out.r # "nil"
                     THEN [c |-> [writeToCtx(out.c, out.r) EXCEPT !.nextMW = FALSE],
                           r |-> out.r]
                 ELSE nextMW(mw, hc, out.c)
    ELSE [c |-> [c EXCEPT !.nextMW = FALSE], r |-> "nil"]

routerVars == <<methods, maxParams, opts, routes, last, heap, pool, reqs>>

\* Group.Use(mw): one more middleware
Use ==
    /\ Len(chain.mw) < MaxMw
    /\ \E k \in MwKinds :
           chain' = [chain EXCEPT !.mw = Append(@, k), !.served = FALSE, !.trace = <<>>]
    /\ UNCHANGED <<routerVars, sse>>

\* Group.AddRoute(method, path, handlers...): the chain of the route
GroupAddRoute ==
    /\ ~chain.added
    /\ \E n \in 1..MaxHc : \E hc \in [1..n -> HcKinds] :
           chain' = [chain EXCEPT !.hc = hc, !.added = TRUE]
    /\ UNCHANGED <<routerVars, sse>>

\* groupHandlerChain.Serve: ctx.Next() on a new Context
Serve ==
    /\ chain.added
    /\ ~chain.served
    /\ \E out \in {CtxNext(chain.mw, chain.hc, newCtx)} :
           chain' = [chain EXCEPT !.served = TRUE, !.trace = out.c.trace]
    /\ UNCHANGED <<routerVars, sse>>

NextChain == Use \/ GroupAddRoute \/ Serve

SpecChain == Init /\ [][NextChain]_vars

----------------------------------------------------------------------------
(* C20 *)

\* the middlewares of the group all return at once, none calls ctx.Next()
\* or ctx.NextMiddleware()
Plain == \A i \in DOMAIN chain.mw : chain.mw[i] \in Responses

\* a non-nil Response was returned at event a of the trace
Broke(a) == chain.trace[a].ev = "return" /\ chain.trace[a].r # "nil"

\* C20 as claimed: once a middleware or handler of a request has returned a
\* non-nil Response, no later middleware and no later handler of that request
\* is executed, whatever the middlewares before it did
C20_BreaksChain ==
    \A a, b \in DOMAIN chain.trace :
        (a < b /\ Broke(a)) => chain.trace[b].ev # "call"

\* with middlewares that do not call ctx.Next() or ctx.NextMiddleware() the
\* first non-nil Response is the last thing that happens in the chain
C20_PlainBreaksChain ==
    (chain.served /\ Plain) =>
        \A a \in DOMAIN chain.trace : Broke(a) => a = Len(chain.trace)

\* a middleware that returns a Response after one that returns nil: the
\* handlers of the route are not called
C20_PlainWitness ==
    /\ chain.served /\ Plain
    /\ Len(chain.mw) >= 2
    /\ \E a \in DOMAIN chain.trace : Broke(a) /\ chain.trace[a].of = "mw" /\ chain.trace[a].i = 2
    /\ \A b \in DOMAIN chain.trace : chain.trace[b].of # "h"

\* a middleware called ctx.Next(), a later middleware returned a Response, the
\* first one returned nil, and a handler of the route was called after that
C20_HandlerAfterBreak ==
    /\ chain.served
    /\ Len(chain.mw) >= 2
    /\ chain.mw[1] = "Next"
    /\ \E a, b \in DOMAIN chain.trace :
           /\ a < b
           /\ Broke(a) /\ chain.trace[a].of = "mw"
           /\ chain.trace[b].ev = "call" /\ chain.trace[b].of = "h"

----------------------------------------------------------------------------
(* C21 *)

\* no middleware of the group and no handler of the route returns a non-nil
\* Response
AllNil ==
    /\ \A i \in DOMAIN chain.mw : chain.mw[i] \notin {"Break", "resp"}
    /\ \A i \in DOMAIN chain.hc : chain.hc[i] = "nil"

IsCall(e) == e.ev = "call"

\* the calls of the request, in the order they were made
Calls == SelectSeq(chain.trace, IsCall)

\* where in the trace middleware or handler i was called, and where it returned
CallAt(of, i) ==
    CHOOSE a \in DOMAIN chain.trace :
        chain.trace[a].ev = "call" /\ chain.trace[a].of = of /\ chain.trace[a].i = i

ReturnAt(of, i) ==
    CHOOSE a \in DOMAIN chain.trace :
        chain.trace[a].ev = "return" /\ chain.trace[a].of = of /\ chain.trace[a].i = i

\* everything registered after middleware i ran to completion between the
\* call of i and its return
WrapsRest(i) ==
    /\ \A j \in DOMAIN chain.mw :
           j > i => /\ CallAt("mw", i) < CallAt("mw", j)
                    /\ ReturnAt("mw", j) < ReturnAt("mw", i)
    /\ \A j \in DOMAIN chain.hc :
           /\ CallAt("mw", i) < CallAt("h", j)
           /\ ReturnAt("h", j) < ReturnAt("mw", i)

\* C21: when nothing returns a non-nil Response, the calls of a request are
\* the middlewares of the group in registration order followed by the handlers
\* of the route in registration order, each called once and each returning
\* once, whether or not a middleware calls ctx.Next(); and a middleware that
\* calls ctx.Next() returns only after all remaining middlewares and all
\* handlers have returned
C21_EveryOneOnce ==
    (chain.served /\ AllNil) =>
        /\ Len(Calls) = Len(chain.mw) + Len(chain.hc)
        /\ Len(chain.trace) = 2 * Len(Calls)
        /\ \A k \in DOMAIN Calls :
               IF k <= Len(chain.mw) THEN Calls[k].of = "mw" /\ Calls[k].i = k
               ELSE Calls[k].of = "h" /\ Calls[k].i = k - Len(chain.mw)
        /\ \A a \in DOMAIN chain.trace :
               chain.trace[a].ev = "call" =>
                   \E b \in DOMAIN chain.trace :
                       /\ a < b /\ chain.trace[b].ev = "return"
                       /\ chain.trace[b].of = chain.trace[a].of
                       /\ chain.trace[b].i = chain.trace[a].i
        /\ \A i \in DOMAIN chain.mw :
               chain.mw[i] \in {"Next", "LogRequests"} => WrapsRest(i)

\* LogRequests, then a middleware that returns nil, then two handlers that
\* return nil: all four ran, and LogRequests returned last
C21_Witness ==
    /\ chain.served /\ AllNil
    /\ chain.mw = <<"LogRequests", "nil">>
    /\ Len(chain.hc) = 2
    /\ Len(chain.trace) = 8
    /\ chain.trace[8] = [ev |-> "return", of |-> "mw", i |-> 1, r |-> "nil"]

\* a middleware that calls ctx.Next() in the middle of the group
C21_WitnessNext ==
    /\ chain.served /\ AllNil
    /\ Len(chain.mw) = 3 /\ chain.mw[2] = "Next"
    /\ Len(chain.hc) = 2
    /\ ReturnAt("h", 2) < ReturnAt("mw", 2)
    /\ ReturnAt("mw", 2) < ReturnAt("mw", 1)

----------------------------------------------------------------------------
(* C22 *)

\* route i has as many parts as the path has segments after its first w
\* characters, or ends in a wildcard
RefQualifies(i, path, w) ==
    Len(RefParts(routes[i].route)) = RefNsep(path, w) \/ RefEndsInStar(routes[i].route)

\* some route of method registered under a prefix of path shorter than w, or
\* under the root, would qualify for the path left after its own prefix
RefShorterQualifies(method, path, w) ==
    \/ \E b \in RefHits(method, path) :
           b < w /\ \E i \in RefBucket(method, SubSeq(path, 1, b)) : RefQualifies(i, path, b)
    \/ \E i \in RefBucket(method, <<"/">>) : RefQualifies(i, path, 0)

\* C22: when some prefix of the path that ends at one of its '/' boundaries
\* is a registered prefix of the method, the handler returned is the handler
\* of a qualifying node of the bucket of the longest such prefix, and when no
\* node of that bucket qualifies no handler and no params are returned,
\* whatever the buckets of the shorter prefixes and of the root hold
C22_LongestPrefixCommits ==
    (last.op = "Match" /\ last.method # "HEAD" /\ RefStartsWith(last.path, <<"/">>)) =>
        \E w \in {RefWinning(last.method, last.path)} :
            w # 0 =>
                \E q \in {{i \in RefWinningBucket(last.method, last.path, w) :
                              RefQualifies(i, last.path, w)}} :
                    /\ last.panic = NoPanic
                    /\ q = {} => (last.handler = NilHandler /\ last.p = <<>>)
                    /\ q # {} => \E i \in q : last.handler = routes[i].h

\* '/a/b' and '/a/:x/:y' registered, '/a/b/1' asked: the bucket of '/a/b'
\* has no node for one more segment, '/a/:x/:y' would fit, no handler
C22_Witness ==
    /\ last.op = "Match" /\ last.method # "HEAD"
    /\ last.path = <<"/", "a", "/", "b", "/", "1">>
    /\ RefWinning(last.method, last.path) = 4
    /\ RefShorterQualifies(last.method, last.path, 4)
    /\ \E i \in RefMethodRoutes(last.method) :
           routes[i].route = <<"/", "a", "/", ":", "x", "/", ":", "y">>
    /\ last.handler = NilHandler

----------------------------------------------------------------------------
(* Router.match and the root bucket *)

RootRoutes ==
    { <<"/">>,
      <<"/", ":", "x">>,
      <<"/", "*", "w">>,
      <<"/", ":", "x", "/", ":", "y">>,
      <<"/", "a", "/", ":", "x">> }

RootPaths ==
    { <<"/">>,
      <<"/", "1">>,
      <<"/", "1", "/", "2">>,
      <<"/", "a", "/", "1">>,
      <<"/", "b", "/", "1">> }

RootAddRoute ==
    /\ last.op # "Match"
    /\ numNodes < MaxRoutes
    /\ \E method \in {"GET", "POST"}, route \in RootRoutes :
           DoAddRoute(method, route, freshHandler)

RootMatchCall ==
    /\ last.op # "Match"
    /\ \E method \in {"GET", "POST"}, path \in RootPaths : DoMatch(method, path)

NextRoot == RootAddRoute \/ RootMatchCall \/ EndRequest

SpecRoot == Init /\ [][NextRoot]_vars

----------------------------------------------------------------------------
(* C23 *)

\* the number of '/' characters of path
RefSlashes(path) == Cardinality({i \in DOMAIN path : path[i] = "/"})

\* the routes of the root bucket of method with as many parts as path has
\* '/' characters, or ending in a wildcard
RefRootQualifying(method, path) ==
    {i \in RefBucket(method, <<"/">>) :
        Len(RefParts(routes[i].route)) = RefSlashes(path) \/ RefEndsInStar(routes[i].route)}

\* C23: when no prefix of the path ending at one of its '/' boundaries is a
\* registered prefix of the method, match fails with no handler if the method
\* has no root bucket; otherwise it answers with the first node of the root
\* bucket that has as many parts as the whole path has '/' characters or that
\* ends in a wildcard, a route of one wildcard capturing the whole path
\* without its leading '/', and a route of parameters capturing the segments
\* of the whole path
C23_RootFallback ==
    (last.op = "Match" /\ RefStartsWith(last.path, <<"/">>)
        /\ RefHits(last.method, last.path) = {}) =>
        \E q \in {RefRootQualifying(last.method, last.path)} :
            /\ last.panic = NoPanic
            /\ RefBucket(last.method, <<"/">>) = {} => last.handler = NilHandler
            /\ q = {} => last.handler = NilHandler
            /\ q # {} =>
                   \E c \in {CHOOSE i \in q : \A j \in q : i <= j} :
                       /\ last.handler = routes[c].h
                       /\ (RefEndsInStar(routes[c].route) /\ Len(RefParts(routes[c].route)) = 1) =>
                              last.p = <<<<Tail(RefParts(routes[c].route)[1]), Tail(last.path)>>>>
                       /\ (C4_ParamOnly(c) /\ RefConforms(routes[c].route, last.path)) =>
                              last.p = RefParams(routes[c].route, last.path)

\* only '/:x' registered, '/1' asked: x = '1'
C23_Witness ==
    /\ last.op = "Match"
    /\ Len(routes) = 1
    /\ routes[1] = [method |-> last.method, route |-> <<"/", ":", "x">>, h |-> 1]
    /\ last.path = <<"/", "1">>
    /\ last.handler = 1
    /\ last.p = <<<<<<"x">>, <<"1">>>>>>

\* only '/*w' registered, '/1/2' asked: w = '1/2'
C23_WitnessStar ==
    /\ last.op = "Match"
    /\ Len(routes) = 1
    /\ routes[1] = [method |-> last.method, route |-> <<"/", "*", "w">>, h |-> 1]
    /\ last.path = <<"/", "1", "/", "2">>
    /\ last.handler = 1
    /\ last.p = <<<<<<"w">>, <<"1", "/", "2">>>>>>

\* routes registered, none under the root and none under a prefix of the
\* path: no handler
C23_WitnessNoRoot ==
    /\ last.op = "Match"
    /\ RefMethodRoutes(last.method) # {}
    /\ RefHits(last.method, last.path) = {}
    /\ RefBucket(last.method, <<"/">>) = {}
    /\ last.handler = NilHandler

----------------------------------------------------------------------------
(* C24 *)

\* the last call registered its pattern: the one route of the router
Registered == last.op = "AddRoute" /\ Len(routes) = 1

\* the prefix the node of that route is stored under, and the node
StoredKey == CHOOSE k \in DOMAIN methods[last.method].rm : TRUE
StoredNode == methods[last.method].rm[StoredKey][1]

IsParamPart(np) == Type(np) = ":"
IsStarPart(np) == Type(np) = "*"

\* the segments of the pattern that begin with ':', each without its ':'
RECURSIVE refParamNames(_)
refParamNames(segs) ==
    IF segs = <<>> THEN <<>>
    ELSE (IF RefIsParam(Head(segs)) THEN <<Tail(Head(segs))>> ELSE <<>>)
             \o refParamNames(Tail(segs))

RECURSIVE partNames(_)
partNames(parts) ==
    IF parts = <<>> THEN <<>> ELSE <<Name(Head(parts))>> \o partNames(Tail(parts))

\* C24 as claimed: a registered pattern is stored under the whole segments
\* that precede its first segment beginning with ':' or '*', one trailing '/'
\* cut, and its Param parts are the segments beginning with ':', each named by
\* all that follows the ':' in its segment; a ':' or '*' inside a segment
\* starts nothing
C24_SplitAtSlashOnly ==
    Registered =>
        /\ StoredKey = RefPrefix(last.path)
        /\ partNames(SelectSeq(StoredNode.parts, IsParamPart))
               = refParamNames(RefSplit(last.path))

\* the claim holds for the patterns in which every ':' and '*' begins a
\* segment and is followed by a name
RefWellFormed(route) ==
    \A i \in DOMAIN route :
        route[i] \in {":", "*"} =>
            /\ i > 1 /\ route[i - 1] = "/"
            /\ i < Len(route) /\ route[i + 1] \notin {"/", ":", "*"}

C24_WellFormedSplit ==
    (Registered /\ RefWellFormed(last.path)) =>
        /\ StoredKey = RefPrefix(last.path)
        /\ partNames(SelectSeq(StoredNode.parts, IsParamPart))
               = refParamNames(RefSplit(last.path))

\* '/a:a' is registered under '/a' with a Param part named 'a'
C24_MidSegmentSplit ==
    /\ Registered
    /\ last.path = <<"/", "a", ":", "a">>
    /\ StoredKey = <<"/", "a">>
    /\ StoredNode.parts = << <<":", "a">> >>

----------------------------------------------------------------------------
(* C25 *)

\* the positions of the Wildcard parts of a node
StarParts(n) == {i \in DOMAIN n.parts : IsStarPart(n.parts[i])}

\* C25: every node of the route table has at most one Wildcard part, and a
\* node that has one has it as its last part
C25_OneStarLast ==
    \A mt \in StdMethods :
        \A k \in DOMAIN methods[mt].rm :
            \A j \in DOMAIN methods[mt].rm[k] :
                /\ Cardinality(StarParts(methods[mt].rm[k][j])) <= 1
                /\ \A i \in StarParts(methods[mt].rm[k][j]) :
                       i = Len(methods[mt].rm[k][j].parts)

\* a pattern was registered whose node has a Param part and then its
\* Wildcard part
C25_Witness ==
    /\ Registered
    /\ Len(StoredNode.parts) = 2
    /\ StarParts(StoredNode) = {2}

\* a pattern with a Wildcard part was turned down and nothing was stored
C25_WitnessRejected ==
    /\ last.op = "AddRoute"
    /\ (last.err # ErrNil \/ last.panic \in {ErrTooManyStars, ErrStarNotLast})
    /\ numNodes = 0

----------------------------------------------------------------------------
(* C26 *)

\* the named captures of a node: its Param and Wildcard parts
Captures(n) == Cardinality({i \in DOMAIN n.parts : IsParamPart(n.parts[i]) \/ IsStarPart(n.parts[i])})

\* the numbers of named captures of the nodes of the route table
AllCaptures ==
    UNION {UNION {{Captures(methods[mt].rm[k][j]) : j \in DOMAIN methods[mt].rm[k]} :
                      k \in DOMAIN methods[mt].rm} : mt \in StdMethods}

\* C26: maxParams is the largest number of named captures among the nodes of
\* the route table, 0 if there are none; no step lowers it, and only a call
\* of AddRoute changes it
C26_MaxParamCount ==
    /\ [](/\ maxParams \in AllCaptures \cup {0}
          /\ \A c \in AllCaptures : c <= maxParams)
    /\ [][/\ maxParams' >= maxParams
          /\ maxParams' # maxParams => last'.op = "AddRoute"]_vars

\* a route of two captures was registered before a route of one capture, and
\* a request has been matched since: maxParams is 2
C26_Witness ==
    /\ Len(routes) = 2
    /\ AllCaptures = {1, 2}
    /\ Cardinality(RefCaptures(routes[1].route)) = 2
    /\ Cardinality(RefCaptures(routes[2].route)) = 1
    /\ last.op = "Match"
    /\ maxParams = 2

----------------------------------------------------------------------------
(* C27 *)

\* the nodes of the route table registered with the handler h
NodesOfHandler(h) ==
    UNION {UNION {{methods[mt].rm[k][j] : j \in {i \in DOMAIN methods[mt].rm[k] :
                                                     methods[mt].rm[k][i].h = h}} :
                      k \in DOMAIN methods[mt].rm} : mt \in StdMethods}

\* C27: a match appends at most as many params as the selected node has
\* named captures, hence at most maxParams, and the paramsWrapper it made
\* with the capacity maxParams still has that capacity when match ends
C27_NeverGrown ==
    last.op = "Match" =>
        /\ Len(last.p) <= maxParams
        /\ last.handler = NilHandler => last.p = <<>>
        /\ \A n \in NodesOfHandler(last.handler) : Len(last.p) <= Captures(n)
        /\ ~last.pwNil => last.cap = maxParams

\* a route of one capture answered with its one param while a route of two
\* captures is registered: the capacity is 2
C27_Witness ==
    /\ last.op = "Match"
    /\ last.handler # NilHandler
    /\ \E n \in NodesOfHandler(last.handler) : Captures(n) = 1
    /\ Len(last.p) = 1
    /\ maxParams = 2
    /\ last.cap = 2

\* a route of two captures answered with its two params
C27_WitnessFull ==
    /\ last.op = "Match"
    /\ last.handler # NilHandler
    /\ Len(last.p) = 2
    /\ maxParams = 2
    /\ last.cap = 2

\* with the route table frozen before the first paramsWrapper is made, every
\* paramsWrapper has the capacity maxParams at every moment of every request
C27_FrozenCapacity == \A b \in DOMAIN heap : heap[b].cap = maxParams /\ Len(heap[b].p) <= maxParams

----------------------------------------------------------------------------
(* C28 *)

\* the structural errors of AddRoute
StructuralErrors == {ErrTooManyStars, ErrStarNotLast}

\* the call that has just been made was an AddRoute that failed with a
\* structural error, returned or raised
FailedAddRoute(l) ==
    l.op = "AddRoute" /\ (l.err \in StructuralErrors \/ l.panic \in StructuralErrors)

\* C28: an AddRoute that fails with ErrTooManyStars or ErrStarNotLast leaves
\* the maps of all methods, their nodes and maxParams as they were, so that
\* every later match works on the router the failed call found
C28_FailedAddRouteNoEffect ==
    [][FailedAddRoute(last') =>
           /\ methods' = methods
           /\ maxParams' = maxParams
           /\ routes' = routes
           /\ opts' = opts]_vars

\* with one route registered, a pattern has just been turned down
C28_Witness ==
    /\ FailedAddRoute(last)
    /\ numNodes = 1
    /\ Len(routes) = 1

----------------------------------------------------------------------------
(* C29 *)

\* C29 as claimed: with NoPanicOnInvalidAddRoute set, AddRoute raises
\* nothing, whatever the method and the pattern: it returns one of the two
\* structural errors, or it registers the route and returns nil
C29_AddRouteNeverFatal ==
    (last.op = "AddRoute" /\ opts.NoPanicOnInvalidAddRoute) =>
        /\ last.panic = NoPanic
        /\ \/ last.err \in StructuralErrors
           \/ /\ last.err = ErrNil
              /\ routes # <<>>
              /\ routes[Len(routes)] =
                     [method |-> last.method, route |-> last.path, h |-> last.h]

\* AddRoute with a method that has no map raised the panic of a write to a
\* nil map, although NoPanicOnInvalidAddRoute is set
C29_NilMapPanic ==
    /\ last.op = "AddRoute"
    /\ opts.NoPanicOnInvalidAddRoute
    /\ last.method \notin StdMethods
    /\ last.panic = PanicNilMap

\* for the standard methods the claim holds
C29_StdMethodsNeverFatal ==
    (last.op = "AddRoute" /\ opts.NoPanicOnInvalidAddRoute /\ last.method \in StdMethods) =>
        /\ last.panic = NoPanic
        /\ \/ last.err \in StructuralErrors
           \/ /\ last.err = ErrNil
              /\ routes # <<>>
              /\ routes[Len(routes)] =
                     [method |-> last.method, route |-> last.path, h |-> last.h]

----------------------------------------------------------------------------
(* sse.Router: the clients of one stream id connect with Handle and
   disconnect, while events are sent with Send. Every step is one critical
   section of r.mux or of ms.mux. *)

MaxStreams == 2

allButSSE == <<routerVars, chain>>

\* Router.getOrMake(id), the first thing Handle does to the router: the
\* multiStream registered under id, made and registered if there is none
getOrMake(c) ==
    /\ sse.pc[c] = "idle"
    /\ IF sse.mss = NoStream
           THEN /\ Len(sse.streams) < MaxStreams
                /\ sse' = [sse EXCEPT !.streams = Append(@, [clients |-> {}, closed |-> FALSE]),
                                      !.mss = Len(sse.streams) + 1,
                                      !.ms[c] = Len(sse.streams) + 1,
                                      !.pc[c] = "made"]
       ELSE sse' = [sse EXCEPT !.ms[c] = sse.mss, !.pc[c] = "made"]
    /\ UNCHANGED allButSSE

\* multiStream.add(ch): the channel of the client joins the multiStream that
\* getOrMake returned; from here on Handle serves the client
msAdd(c) ==
    /\ sse.pc[c] = "made"
    /\ sse' = [sse EXCEPT !.streams[sse.ms[c]].clients = @ \cup {c}, !.pc[c] = "handling"]
    /\ UNCHANGED allButSSE

\* the client disconnects: Handle returns and the deferred removeIfEmpty
\* begins with multiStream.remove(ch)
msRemove(c) ==
    /\ sse.pc[c] = "handling"
    /\ \E left \in {sse.streams[sse.ms[c]].clients \ {c}} :
           sse' = [sse EXCEPT !.streams[sse.ms[c]].clients = left,
                              !.pc[c] = IF left = {} THEN "removed" ELSE "idle",
                              !.ms[c] = IF left = {} THEN @ ELSE NoStream]
    /\ UNCHANGED allButSSE

\* the end of removeIfEmpty after remove returned true: whatever multiStream
\* is registered under id is closed and unregistered
removeIfEmpty(c) ==
    /\ sse.pc[c] = "removed"
    /\ IF sse.mss # NoStream
           THEN sse' = [sse EXCEPT !.streams[sse.mss].closed = TRUE,
                                   !.mss = NoStream,
                                   !.pc[c] = "idle", !.ms[c] = NoStream]
       ELSE sse' = [sse EXCEPT !.pc[c] = "idle", !.ms[c] = NoStream]
    /\ UNCHANGED allButSSE

\* Router.Send(id, ...): ErrNoListener if no multiStream is registered under
\* id, else the event goes to the data channel of the registered one
Send ==
    /\ sse' = [sse EXCEPT !.sent = IF sse.mss = NoStream
                                      THEN [err |-> "ErrNoListener", ms |-> NoStream]
                                   ELSE [err |-> "nil", ms |-> sse.mss]]
    /\ UNCHANGED allButSSE

Handle == \E c \in Clients : getOrMake(c) \/ msAdd(c)

Disconnect == \E c \in Clients : msRemove(c) \/ removeIfEmpty(c)

NextSSE == Handle \/ Disconnect \/ Send

SpecSSE == Init /\ [][NextSSE]_vars

----------------------------------------------------------------------------
(* C30 *)

\* the clients whose Handle has added its channel and has not disconnected
Listening == {c \in Clients : sse.pc[c] = "handling"}

\* C30 as claimed, first part: while a client is registered and has not
\* disconnected, the multiStream it was added to is the one stored under the
\* id, and a Send made now does not find the id without listener
C30_ListenerRegistered ==
    \A c \in Listening :
        /\ sse.mss # NoStream
        /\ sse.mss = sse.ms[c]
        /\ c \in sse.streams[sse.mss].clients
        /\ ~sse.streams[sse.mss].closed

\* C30 as claimed, second part: a disconnecting client closes and
\* unregisters a multiStream only if it is the one the client was added to
\* and it has no client left
C30_ClosesOwnEmpty ==
    [][\A c \in Clients :
           (sse.pc[c] = "removed" /\ sse'.pc[c] = "idle" /\ sse.mss # NoStream
               /\ sse'.mss = NoStream) =>
               /\ sse.mss = sse.ms[c]
               /\ sse.streams[sse.mss].clients = {}]_vars

\* a client is being served by Handle and a Send has just returned
\* ErrNoListener
C30_ListenerNotReached ==
    /\ Listening # {}
    /\ sse.mss = NoStream
    /\ sse.sent.err = "ErrNoListener"

\* the multiStream stored under the id is never a closed one: Send does not
\* write to a closed channel
C30_RegisteredOpen == sse.mss # NoStream => ~sse.streams[sse.mss].closed

====
